---- MODULE Spec2Model ----
(***************************************************************************)
(* BayesianNormalEstimator of src/homework2/problem1_bayesian_estimation.py *)
(* as a state machine: one estimator object, the process-global generator  *)
(* of numpy.random, and the operations of the class.                       *)
(*                                                                         *)
(* Numbers are binary floating-point values, rounded to nearest, ties to   *)
(* even, after every arithmetic operation, as Python's float and numpy's   *)
(* float64 are.  A value is <<m, e>>, standing for m * 2^e, with m odd (or *)
(* <<0, 0>> for zero) and |m| < 2^Prec.  binary64 has 53 significand bits; *)
(* the model keeps Prec of them so that the arithmetic stays in TLC's      *)
(* integers.  Exponents are unbounded: nothing here overflows or           *)
(* underflows.                                                             *)
(***************************************************************************)
EXTENDS Integers, Sequences, FiniteSets, TLC

\* Significand bits of a floating-point value.
Prec == 5

\* Longest sample drawn from Values.
MaxLen == 2

----------------------------------------------------------------------------
(* Floating-point arithmetic *)

Abs(x) == IF x < 0 THEN -x ELSE x

Sgn(x) == IF x < 0 THEN -1 ELSE IF x > 0 THEN 1 ELSE 0

RECURSIVE Norm(_, _)
Norm(m, e) ==
  IF m = 0 THEN <<0, 0>>
  ELSE IF Abs(m) % 2 = 0 THEN Norm(m \div 2, e + 1)
  ELSE <<m, e>>

RECURSIVE BitLen(_)
BitLen(n) == IF n = 0 THEN 0 ELSE 1 + BitLen(n \div 2)

\* Bits of s that do not fit the significand.
Excess(s) == BitLen(Abs(s)) - Prec

\* s * 2^e is representable without rounding.
RoundExact(s) == Excess(s) <= 0 \/ Abs(s) % (2 ^ Excess(s)) = 0

\* s * 2^e rounded to Prec significant bits, to nearest, ties to even.
RoundBits(s, e, k) ==
  IF k <= 0 THEN Norm(s, e)
  ELSE LET q  == Abs(s) \div (2 ^ k)
           r  == Abs(s) % (2 ^ k)
           up == r > 2 ^ (k - 1) \/ (r = 2 ^ (k - 1) /\ q % 2 = 1)
       IN  Norm(Sgn(s) * (IF up THEN q + 1 ELSE q), e + k)

\* The operands are bound through sets here and below so that each is
\* evaluated once, however often the operator refers to it.
RoundInt(s, e) ==
  CHOOSE r \in {RoundBits(v, e, Excess(v)) : v \in {s}} : TRUE

OfInt(n) == RoundInt(n, 0)

\* The two operands aligned to the smaller exponent, as one integer sum;
\* <<>> when the smaller operand lies below half a unit in the last place
\* of the larger one.
AlignedSum(a, b) ==
  LET hi == IF a[2] >= b[2] THEN a ELSE b
      lo == IF a[2] >= b[2] THEN b ELSE a
      d  == hi[2] - lo[2]
  IN  IF d > 2 * Prec + 2 THEN <<>>
      ELSE <<hi[1] * (2 ^ d) + lo[1], lo[2]>>

AddValues(a, b) ==
  IF a[1] = 0 THEN b
  ELSE IF b[1] = 0 THEN a
  ELSE IF AlignedSum(a, b) = <<>> THEN (IF a[2] >= b[2] THEN a ELSE b)
  ELSE RoundInt(AlignedSum(a, b)[1], AlignedSum(a, b)[2])

FAdd(x, y) == CHOOSE r \in {AddValues(a, b) : a \in {x}, b \in {y}} : TRUE

AddExact(a, b) ==
  \/ a[1] = 0
  \/ b[1] = 0
  \/ LET s == AlignedSum(a, b) IN s # <<>> /\ RoundExact(s[1])

FNeg(x) == CHOOSE r \in {<<-a[1], a[2]>> : a \in {x}} : TRUE

FSub(a, b) == FAdd(a, FNeg(b))

SubExact(a, b) == AddExact(a, FNeg(b))

FMul(x, y) ==
  CHOOSE r \in {RoundInt(a[1] * b[1], a[2] + b[2]) : a \in {x}, b \in {y}} : TRUE

MulExact(a, b) == RoundExact(a[1] * b[1])

\* Quotient of the significands with 2 * Prec + 2 extra bits and a sticky
\* last bit for a non-zero remainder.
QuotSticky(a, b) ==
  LET num == Abs(a[1]) * (2 ^ (2 * Prec + 2))
      q   == num \div Abs(b[1])
      r   == num % Abs(b[1])
  IN  Sgn(a[1]) * Sgn(b[1]) * (2 * q + (IF r = 0 THEN 0 ELSE 1))

\* y is not zero.
FDiv(x, y) ==
  CHOOSE r \in {RoundInt(QuotSticky(a, b), a[2] - b[2] - (2 * Prec + 2) - 1)
                  : a \in {x}, b \in {y}} : TRUE

DivExact(a, b) == RoundExact(QuotSticky(a, b))

RECURSIVE ISqrtIn(_, _, _)
\* The largest r in lo..hi with r * r <= x (lo * lo <= x).
ISqrtIn(x, lo, hi) ==
  IF lo = hi THEN lo
  ELSE IF ((lo + hi + 1) \div 2) * ((lo + hi + 1) \div 2) <= x
  THEN ISqrtIn(x, (lo + hi + 1) \div 2, hi)
  ELSE ISqrtIn(x, lo, ((lo + hi + 1) \div 2) - 1)

ISqrt(x) == ISqrtIn(x, 0, 2 ^ ((BitLen(x) + 1) \div 2))

\* Even power of two the significand is scaled by before the integer root.
SqrtShift(a) ==
  IF (a[2] - (2 * Prec + 2)) % 2 = 0 THEN 2 * Prec + 2 ELSE 2 * Prec + 3

RootSticky(a) ==
  CHOOSE s \in {2 * r + (IF r * r = a[1] * (2 ^ SqrtShift(a)) THEN 0 ELSE 1)
                  : r \in {ISqrt(a[1] * (2 ^ SqrtShift(a)))}} : TRUE

\* x is not negative.
FSqrt(x) ==
  CHOOSE r \in {IF a[1] = 0 THEN a
                ELSE RoundInt(RootSticky(a), ((a[2] - SqrtShift(a)) \div 2) - 1)
                  : a \in {x}} : TRUE

SqrtExact(a) == a[1] = 0 \/ RoundExact(RootSticky(a))

FLt(a, b) == FSub(a, b)[1] < 0

FLe(a, b) == FSub(a, b)[1] <= 0

FAbs(a) == <<Abs(a[1]), a[2]>>

----------------------------------------------------------------------------
(* Inputs *)

\* <<0, 0>> is 0.0; <<"nan">> is the value numpy returns for 0.0 / 0.
Zero == <<0, 0>>

One == <<1, 0>>

Two == <<1, 1>>

NaN == <<"nan">>

\* What numpy returns for x / 0.0, x positive and x negative.
Inf == <<"inf">>

NegInf == <<"-inf">>

IsFinite(x) == Len(x) = 2

\* Observed values: 0.0 and 2.0.
Values == {<<0, 0>>, <<1, 1>>}

\* Three equal observations of 11.0, whose sum needs more than Prec bits.
EqualData == << <<11, 0>>, <<11, 0>>, <<11, 0>> >>

\* The 20 observations of demonstrate_bayesian_estimation (2.5 + 1.2 * z
\* for the standard normal draws z of seed 42), each rounded to the nearest
\* half so that it is representable at Prec bits.
DemoData ==
  << <<3, 0>>, <<5, -1>>, <<7, -1>>, <<9, -1>>, <<1, 1>>,
     <<1, 1>>, <<9, -1>>, <<7, -1>>, <<1, 1>>, <<3, 0>>,
     <<1, 1>>, <<1, 1>>, <<3, 0>>, <<0, 0>>, <<1, -1>>,
     <<1, 1>>, <<3, -1>>, <<3, 0>>, <<3, -1>>, <<1, 0>> >>

SeqsUpTo(S, n) == UNION {[1..k -> S] : k \in 0..n}

Samples == SeqsUpTo(Values, MaxLen) \cup {DemoData, EqualData}

\* prior_sigma: -1.0, 0.0, 1.0, 2.0, 7.25.
PriorSigmas == {<<-1, 0>>, <<0, 0>>, <<1, 0>>, <<1, 1>>, <<29, -2>>}

\* <<prior_mu, prior_alpha, prior_beta>>: (0.0, 1.0, 1.0), the defaults,
\* and (1.0, 2.0, 3.0).
PriorOthers ==
  { << <<0, 0>>, <<1, 0>>, <<1, 0>> >>, << <<1, 0>>, <<1, 1>>, <<3, 0>> >> }

----------------------------------------------------------------------------
(* numpy reductions *)

RECURSIVE SumFrom(_, _, _, _)
\* acc + xs[i] + xs[i + step] + ..., added left to right.
SumFrom(acc, xs, i, step) ==
  IF i > Len(xs) THEN acc
  ELSE SumFrom(FAdd(acc, xs[i]), xs, i + step, step)

\* numpy's pairwise summation for fewer than 128 elements: a plain loop
\* below 8 elements, else 8 running sums over the whole blocks of 8,
\* combined as a tree, and then the remaining elements one by one.
NpSum(xs) ==
  LET n == Len(xs)
  IN  IF n < 8 THEN SumFrom(Zero, xs, 1, 1)
      ELSE LET whole == SubSeq(xs, 1, n - (n % 8))
               r(j) == SumFrom(whole[j], whole, j + 8, 8)
               res  == FAdd(FAdd(FAdd(r(1), r(2)), FAdd(r(3), r(4))),
                            FAdd(FAdd(r(5), r(6)), FAdd(r(7), r(8))))
           IN  SumFrom(res, xs, n - (n % 8) + 1, 1)

\* np.mean(data): the sum divided by the count; nan for no data.
NpMean(xs) ==
  IF Len(xs) = 0 THEN NaN ELSE FDiv(NpSum(xs), OfInt(Len(xs)))

\* (data - mean) ** 2, element by element.
SqDev(xs, mean) ==
  CHOOSE r \in {[i \in 1..Len(xs) |-> FMul(FSub(xs[i], m), FSub(xs[i], m))]
                  : m \in {mean}} : TRUE

\* <<np.mean(data), np.sum((data - np.mean(data)) ** 2)>>.  np.var forms
\* the same mean and the same sum of squares again, with the same
\* operations in the same order.
Moments(xs) ==
  CHOOSE r \in {<<m, IF Len(xs) = 0 THEN Zero ELSE NpSum(SqDev(xs, m))>>
                  : m \in {NpMean(xs)}} : TRUE

\* np.var(data, ddof=1) of n > 1 elements whose squared deviations sum to ss.
NpVar1(n, ss) == FDiv(ss, OfInt(n - 1))

----------------------------------------------------------------------------
(* BayesianNormalEstimator *)

VARIABLES
  prior_mu, prior_sigma, prior_alpha, prior_beta,
  posterior_mu, posterior_sigma, posterior_alpha, posterior_beta,
  data,      \* self.data
  updates,   \* update_posterior calls made so far
  rng,       \* numpy's global generator: <<seed, variates drawn since>>
  last,      \* the last call: its name, what it raised, what it returned
  other      \* a second estimator: its priors, posteriors and data

priors == <<prior_mu, prior_sigma, prior_alpha, prior_beta>>

posteriors == <<posterior_mu, posterior_sigma, posterior_alpha, posterior_beta>>

\* SimpleHomework1GUI of src/homework1/simple_gui.py.
VARIABLES
  tabs,         \* tabs added to self.tab_widget so far
  output_text,  \* the tab whose output area self.output_text refers to
  areas,        \* the text of the output area of each tab, as its blocks
  status,       \* the message of the status bar; <<>> until init_ui sets it
  event         \* the last click or call from outside, with its outcome

gui == <<tabs, output_text, areas, status, event>>

\* ProblemRunner, the QThread of src/homework1/gui_app.py and the one of
\* src/assignment_widget.py.
VARIABLES
  runner_class,  \* the module of the class: "gui_app" or "assignment_widget"
  pc,            \* where run() is, from "idle" to "returned"
  process,       \* the child of self.process
  is_running,    \* self.is_running
  written,       \* chunks the child has written to its standard output
  pipe,          \* chunks of them nobody has read yet
  queued,        \* slot calls queued for the thread the runner lives in
  emitted,       \* the signals of the runner emitted so far
  messages,      \* the texts emitted with them, but for the child's output
  stop_called    \* stop() has been called

runner ==
  <<runner_class, pc, process, is_running, written, pipe, queued, emitted,
    messages, stop_called>>

\* The process of assignment_widget.py: its working directory and the
\* runners of its ProblemWidgets, as far as they deal with it.
VARIABLES
  cwd,           \* os.getcwd()
  original_cwd,  \* original_cwd of each runner's run()
  run_at         \* where each runner's run() is

shell == <<cwd, original_cwd, run_at>>

\* Homework1GUI of src/homework1/gui_app.py and the runners it starts.
VARIABLES
  problem_runners,  \* self.problem_runners: the runner of each file, or 0
  thread,           \* each runner's thread: "none", "running" or "returned"
  file_of,          \* problem_file of each runner
  events,           \* slot calls queued for the thread of the window
  shared_output,    \* self.output_text: the runners whose output it shows
  progress_bar,     \* self.progress_bar is visible
  closed            \* closeEvent has been handled

window ==
  <<problem_runners, thread, file_of, events, shared_output, progress_bar,
    closed>>

\* ProblemWidget of src/assignment_widget.py.
VARIABLES
  run_button,          \* self.run_button is enabled
  stop_button,         \* self.stop_button is enabled
  widget_progress_bar, \* self.progress_bar is visible
  problem_runner,      \* self.problem_runner is a runner, not None
  handled,             \* on_problem_finished has run for the last runner
  warnings             \* "File Not Found" message boxes shown so far

widget ==
  <<run_button, stop_button, widget_progress_bar, problem_runner, handled,
    warnings>>

\* HomeworkManager._discover_problems of src/homework_manager.py.
VARIABLES
  directory,   \* the names of the files of homework_dir, in glob's order
  problems,    \* the list _discover_problems has returned
  discovered   \* _discover_problems has been called

listing == <<directory, problems, discovered>>

\* MainApplication of src/main_gui.py with its HomeworkManager.
VARIABLES
  assignments_cache,  \* homework_manager.assignments_cache
  assignment_list,    \* the items of self.assignment_list
  current_row,        \* its current row, counted from 1; 0 for none
  main_tabs,          \* the tabs of self.main_tabs by assignment; 0: overview
  current_index,      \* its current tab, counted from 1
  main_event          \* the last action of the user

mainapp ==
  <<assignments_cache, assignment_list, current_row, main_tabs,
    current_index, main_event>>

\* The state of the other programs of the repository.
apps == <<shell, window, widget, listing, mainapp>>

\* The state no operation of the first estimator or of np.random refers to.
elsewhere == <<other, gui, runner, apps>>

\* The state no operation of the window refers to.
estimators == <<priors, posteriors, data, updates, rng, last, other>>

vars == <<priors, posteriors, data, updates, rng, last, elsewhere>>

\* update_posterior calls in one behaviour.
MaxUpdates == 2

\* Variates the global generator hands out in one behaviour.
MaxDraws == 2

\* n_samples arguments: -1 .. MaxSamples.
MaxSamples == 1

\* Seeds np.random.seed is called with.
Seeds == {"42"}

\* The global generator as numpy creates it on import, seeded from the
\* operating system's entropy.
Unseeded == <<"os", 0>>

\* The generator g after k more variates.
Advance(g, k) == <<g[1], g[2] + k>>

\* Query points of posterior_predictive: 0.0, 1.0.
Queries == {<<0, 0>>, <<1, 0>>}

Call(op, args, raised, value) ==
  [op |-> op, args |-> args, raised |-> raised, value |-> value]

\* The object __init__ builds from the hyperparameters pr.
Estimator(pr) == [priors |-> pr, posteriors |-> pr, data |-> <<>>]

\* The hyperparameters of the second estimator: (1.0, 2.0, 2.0, 3.0).
OtherPriors == << <<1, 0>>, <<1, 1>>, <<1, 1>>, <<3, 0>> >>

\* The problems of add_problem_tabs, one tab each.
Problems == 1..4

\* SimpleHomework1GUI.__init__ on entry to init_ui: no tab, no output area
\* and no status message yet.
GuiInit ==
  /\ tabs = 0
  /\ output_text = 0
  /\ areas = [i \in Problems |-> <<>>]
  /\ status = <<>>
  /\ event = <<"none">>

\* ProblemRunner.__init__: no process yet.
RunnerInit ==
  /\ pc = "idle"
  /\ process = "none"
  /\ is_running = FALSE
  /\ written = 0
  /\ pipe = 0
  /\ queued = <<>>
  /\ emitted = {}
  /\ messages = {}
  /\ stop_called = FALSE

\* The runners of the ProblemWidgets, one widget per problem.
NumRunners == 3

Runners == 1..NumRunners

\* The directory the application was started in.
StartDir == 0

\* working_dir of runner r, the directory of its problem file: the
\* assignment folders are numbered from 1.
WorkingDir(r) == r

ShellInit ==
  /\ cwd = StartDir
  /\ original_cwd = [r \in Runners |-> StartDir]
  /\ run_at = [r \in Runners |-> "idle"]

\* run_problem calls in one behaviour.
MaxRuns == 3

RunnerIds == 1..MaxRuns

\* Slot calls queued at most.
MaxEvents == 2

\* The problem files of the window.
Files == 1..2

\* "File Not Found" message boxes in one behaviour.
MaxWarnings == 2

\* Homework1GUI.__init__, and the progress bar of create_problem_tab.
WindowInit ==
  /\ problem_runners = [f \in Files |-> 0]
  /\ thread = [id \in RunnerIds |-> "none"]
  /\ file_of = [id \in RunnerIds |-> 0]
  /\ events = <<>>
  /\ shared_output = {}
  /\ progress_bar = FALSE
  /\ closed = FALSE

\* ProblemWidget.__init__ and create_execution_tab.
WidgetInit ==
  /\ run_button = TRUE
  /\ stop_button = FALSE
  /\ widget_progress_bar = FALSE
  /\ problem_runner = FALSE
  /\ handled = FALSE
  /\ warnings = 0

\* File names of a homework directory, as their parts; each ends in
\* ".py": problem1.py, problem21.py, problem.py, my_problem1.py,
\* __problem2.py and helper2.py.
FileNames ==
  { <<"problem", "1">>, <<"problem", "2", "1">>, <<"problem">>,
    <<"my", "problem", "1">>, <<"__", "problem", "2">>, <<"helper", "2">> }

\* The decimal digits among the parts of a file name.
DigitValue == [d \in {"0", "1", "2"} |-> IF d = "0" THEN 0
                                          ELSE IF d = "1" THEN 1 ELSE 2]

\* Files in a homework directory at most.
MaxFiles == 3

\* The directories: up to MaxFiles different files in any order.
Directories ==
  {d \in UNION {[1..n -> FileNames] : n \in 0..MaxFiles} :
     \A i, j \in 1..Len(d) : i # j => d[i] # d[j]}

\* A directory nobody has listed.
ListingInit ==
  /\ directory = <<>>
  /\ problems = <<>>
  /\ discovered = FALSE

\* Numbers of assignments.
Numbers == 1..5

\* No folder: an empty entry of the cache, a cancelled dialog.
NoFolder == [location |-> "none", homework |-> FALSE, number |-> 0]

\* The folders of the file system: where each lies ("src" and
\* "assignments" under base_path, or outside of both), whether its name
\* starts with "homework", and the number its digits make (0 without a
\* digit): src/homework1, src/homework2, assignments/homework3, and
\* elsewhere homework4, hw5, homework1 and notes.
Folders ==
  { [location |-> "src", homework |-> TRUE, number |-> 1],
    [location |-> "src", homework |-> TRUE, number |-> 2],
    [location |-> "assignments", homework |-> TRUE, number |-> 3],
    [location |-> "outside", homework |-> TRUE, number |-> 4],
    [location |-> "outside", homework |-> FALSE, number |-> 5],
    [location |-> "outside", homework |-> TRUE, number |-> 1],
    [location |-> "outside", homework |-> FALSE, number |-> 0] }

\* self.assignments_cache[assignment_data['number']] = assignment_data,
\* for each folder of fs in turn.
Cached(cache, fs) ==
  [n \in Numbers |->
     IF \E f \in fs : f.number = n
     THEN CHOOSE f \in fs : f.number = n
     ELSE cache[n]]

\* The directories base.glob("homework*") yields that have a digit in
\* their name, which are those _load_assignment_data returns data for.
Globbed(base) ==
  {f \in Folders : f.location = base /\ f.homework /\ f.number # 0}

\* refresh(): the cache is cleared and filled from base_path/src, then from
\* base_path/assignments.
Refreshed(cache) ==
  LET cleared == [n \in DOMAIN cache |-> NoFolder]
  IN Cached(Cached(cleared, Globbed("src")), Globbed("assignments"))

\* load_assignment_from_folder(folder) on the cache.
LoadedFromFolder(cache, folder) ==
  IF folder.number # 0 THEN Cached(cache, {folder}) ELSE cache

RECURSIVE AvailableFrom(_, _)

\* The entries of cache with a number of at least n, by ascending number.
AvailableFrom(cache, n) ==
  IF n \notin Numbers THEN <<>>
  ELSE (IF cache[n] = NoFolder THEN <<>> ELSE <<cache[n]>>)
         \o AvailableFrom(cache, n + 1)

\* get_available_assignments() for the cache.
get_available_assignments(cache) == AvailableFrom(cache, 1)

\* The row load_assignments selects: the first one, if there is any.
FirstRow(list) == IF list = <<>> THEN 0 ELSE 1

\* MainApplication.__init__: the manager has refreshed its cache,
\* load_assignments has filled the list, and the overview is the only tab.
MainInit ==
  /\ assignments_cache = Refreshed([n \in Numbers |-> NoFolder])
  /\ assignment_list = get_available_assignments(assignments_cache)
  /\ current_row = FirstRow(assignment_list)
  /\ main_tabs = <<0>>
  /\ current_index = 1
  /\ main_event = <<"__init__">>

AppsInit ==
  /\ ShellInit
  /\ WindowInit
  /\ WidgetInit
  /\ ListingInit
  /\ MainInit

ElsewhereInit ==
  /\ other = Estimator(OtherPriors)
  /\ GuiInit
  /\ runner_class = "gui_app"
  /\ RunnerInit
  /\ AppsInit

\* __init__ with the posterior fields set to the default hyperparameters
\* instead of the arguments.
InitDefaults ==
  /\ prior_sigma \in PriorSigmas
  /\ \E o \in PriorOthers :
       prior_mu = o[1] /\ prior_alpha = o[2] /\ prior_beta = o[3]
  /\ posterior_mu = Zero
  /\ posterior_sigma = One
  /\ posterior_alpha = One
  /\ posterior_beta = One
  /\ data = <<>>
  /\ updates = 0
  /\ rng = Unseeded
  /\ last = Call("__init__", <<>>, "none", <<>>)
  /\ ElsewhereInit

Init ==
  /\ prior_sigma \in PriorSigmas
  /\ \E o \in PriorOthers :
       prior_mu = o[1] /\ prior_alpha = o[2] /\ prior_beta = o[3]
  /\ posterior_mu = prior_mu
  /\ posterior_sigma = prior_sigma
  /\ posterior_alpha = prior_alpha
  /\ posterior_beta = prior_beta
  /\ data = <<>>
  /\ updates = 0
  /\ rng = Unseeded
  /\ last = Call("__init__", <<>>, "none", <<>>)
  /\ ElsewhereInit

\* sample_var = np.var(data, ddof=1) if n > 1 else 0
SampleVar(n, ss) == IF n > 1 THEN NpVar1(n, ss) ELSE Zero

\* prior_precision = 1 / (self.prior_sigma ** 2); the divisor is not zero.
PriorPrecision(sigma) == FDiv(One, FMul(sigma, sigma))

\* posterior_precision
PosteriorPrecision(prec, n, var) ==
  IF FLt(Zero, var) THEN FAdd(prec, FDiv(OfInt(n), var)) ELSE prec

\* self.posterior_sigma
PosteriorSigma(pprec) == FDiv(One, FSqrt(pprec))

\* posterior_mu divided by the prior precision instead of the posterior one.
PosteriorMuPriorWeight(mu, prec, n, mean, var) ==
  IF FLt(Zero, var)
  THEN FDiv(FAdd(FMul(prec, mu), FDiv(FMul(OfInt(n), mean), var)), prec)
  ELSE mu

\* self.posterior_mu
PosteriorMu(mu, prec, n, mean, var) ==
  IF FLt(Zero, var)
  THEN FDiv(FAdd(FMul(prec, mu), FDiv(FMul(OfInt(n), mean), var)),
            PosteriorPrecision(prec, n, var))
  ELSE mu

\* posterior_alpha with n // 2 for n / 2.
PosteriorAlphaFloorDiv(alpha, n) == FAdd(alpha, OfInt(n \div 2))

\* self.posterior_alpha
PosteriorAlpha(alpha, n) == FAdd(alpha, FDiv(OfInt(n), Two))

\* posterior_beta with the prior precision in the last denominator.
PosteriorBetaPriorPrecision(beta, mu, prec, n, mean, ss) ==
  IF n > 1
  THEN FAdd(FAdd(beta, FDiv(ss, Two)),
            FDiv(FMul(FMul(prec, OfInt(n)),
                      FMul(FSub(mean, mu), FSub(mean, mu))),
                 FMul(Two, prec)))
  ELSE beta

\* self.posterior_beta
PosteriorBeta(beta, mu, prec, n, mean, ss) ==
  IF n > 1
  THEN FAdd(FAdd(beta, FDiv(ss, Two)),
            FDiv(FMul(FMul(prec, OfInt(n)),
                      FMul(FSub(mean, mu), FSub(mean, mu))),
                 FMul(Two, PosteriorPrecision(prec, n, SampleVar(n, ss)))))
  ELSE beta

\* The posterior fields from the priors pr = <<mu, sigma, alpha, beta>>,
\* the sample size, the sample mean and the sum of squared deviations.
PosteriorFrom(pr, n, mean, ss) ==
  << PosteriorMu(pr[1], PriorPrecision(pr[2]), n, mean, SampleVar(n, ss)),
     PosteriorSigma(PosteriorPrecision(PriorPrecision(pr[2]), n,
                                       SampleVar(n, ss))),
     PosteriorAlpha(pr[3], n),
     PosteriorBeta(pr[4], pr[1], PriorPrecision(pr[2]), n, mean, ss) >>

\* The four posterior fields update_posterior(d) assigns, sigma not zero.
Posterior(pr, d) ==
  CHOOSE r \in {PosteriorFrom(pr, Len(d), m[1], m[2]) : m \in {Moments(d)}}
    : TRUE

\* update_posterior(d) composing with the previous posterior: the
\* posterior fields are read where the code reads the prior fields.
update_posterior_incremental(d) ==
  /\ updates < MaxUpdates
  /\ data' = d
  /\ updates' = updates + 1
  /\ IF FMul(prior_sigma, prior_sigma) = Zero
     THEN /\ last' = Call("update_posterior", <<d>>, "ZeroDivisionError", <<>>)
          /\ UNCHANGED posteriors
     ELSE \E p \in {Posterior(posteriors, d)} :
            /\ last' = Call("update_posterior", <<d>>, "none", <<>>)
            /\ posterior_mu' = p[1]
            /\ posterior_sigma' = p[2]
            /\ posterior_alpha' = p[3]
            /\ posterior_beta' = p[4]
  /\ UNCHANGED <<priors, rng, elsewhere>>

\* update_posterior(d) that also makes the new posterior the prior of the
\* next call.
update_posterior_folding(d) ==
  /\ updates < MaxUpdates
  /\ data' = d
  /\ updates' = updates + 1
  /\ IF FMul(prior_sigma, prior_sigma) = Zero
     THEN /\ last' = Call("update_posterior", <<d>>, "ZeroDivisionError", <<>>)
          /\ UNCHANGED <<priors, posteriors>>
     ELSE \E p \in {Posterior(priors, d)} :
            /\ last' = Call("update_posterior", <<d>>, "none", <<>>)
            /\ posterior_mu' = p[1]
            /\ posterior_sigma' = p[2]
            /\ posterior_alpha' = p[3]
            /\ posterior_beta' = p[4]
            /\ prior_mu' = p[1]
            /\ prior_sigma' = p[2]
            /\ prior_alpha' = p[3]
            /\ prior_beta' = p[4]
  /\ UNCHANGED <<rng, elsewhere>>

\* update_posterior(d): self.data is assigned first; 1 / (0.0 ** 2) raises
\* before any posterior field is assigned.
update_posterior(d) ==
  /\ updates < MaxUpdates
  /\ data' = d
  /\ updates' = updates + 1
  /\ IF FMul(prior_sigma, prior_sigma) = Zero
     THEN /\ last' = Call("update_posterior", <<d>>, "ZeroDivisionError", <<>>)
          /\ UNCHANGED posteriors
     ELSE \E p \in {Posterior(priors, d)} :
            /\ last' = Call("update_posterior", <<d>>, "none", <<>>)
            /\ posterior_mu' = p[1]
            /\ posterior_sigma' = p[2]
            /\ posterior_alpha' = p[3]
            /\ posterior_beta' = p[4]
  /\ UNCHANGED <<priors, rng, elsewhere>>

\* The variate a generator in state g hands out next, as the distribution
\* asked for and its parameters: a function of the seed, of the number of
\* variates drawn since seeding and of the parameters.
Variate(dist, g, p1, p2) == <<dist, g, p1, p2>>

\* 1 / np.sqrt(precision_samples), element by element.
InvSqrt(xs) == [i \in 1..Len(xs) |-> <<"1/sqrt", xs[i]>>]

\* np.random.gamma(shape, scale, n) with the generator in state g.
GammaDraws(g, shape, scale, n) ==
  [i \in 1..n |-> Variate("gamma", Advance(g, i - 1), shape, scale)]

\* np.random.normal(loc, scale, n) with the generator in state g.
NormalDraws(g, loc, scale, n) ==
  [i \in 1..n |-> Variate("normal", Advance(g, i - 1), loc, scale)]

\* sample_posterior(n) that keeps the drawn means in self.data.
sample_posterior_caching(n) ==
  /\ n > 0 => rng[2] + 2 * n <= MaxDraws
  /\ IF n < 0
     THEN /\ last' = Call("sample_posterior", <<n>>, "ValueError", <<>>)
          /\ rng' = rng
          /\ data' = data
     ELSE LET scale == FDiv(One, posterior_beta)
              precision_samples == GammaDraws(rng, posterior_alpha, scale, n)
              sigma_samples == InvSqrt(precision_samples)
              mu_samples ==
                NormalDraws(Advance(rng, n), posterior_mu, posterior_sigma, n)
          IN  IF FLt(posterior_sigma, Zero)
              THEN /\ last' = Call("sample_posterior", <<n>>, "ValueError", <<>>)
                   /\ rng' = Advance(rng, n)
                   /\ data' = data
              ELSE /\ last' = Call("sample_posterior", <<n>>, "none",
                                   <<mu_samples, sigma_samples>>)
                   /\ rng' = Advance(rng, 2 * n)
                   /\ data' = mu_samples
  /\ UNCHANGED <<priors, posteriors, updates, elsewhere>>

\* sample_posterior(n) drawing from a generator of its own, seeded from the
\* operating system, instead of the global one.
sample_posterior_fresh_generator(n) ==
  /\ n > 0 => rng[2] + 2 * n <= MaxDraws
  /\ IF n < 0
     THEN /\ last' = Call("sample_posterior", <<n>>, "ValueError", <<>>)
          /\ rng' = rng
     ELSE LET scale == FDiv(One, posterior_beta)
              precision_samples ==
                GammaDraws(Advance(Unseeded, rng[2]), posterior_alpha, scale, n)
              sigma_samples == InvSqrt(precision_samples)
              mu_samples ==
                NormalDraws(Advance(Unseeded, rng[2] + n), posterior_mu,
                            posterior_sigma, n)
          IN  IF FLt(posterior_sigma, Zero)
              THEN /\ last' = Call("sample_posterior", <<n>>, "ValueError", <<>>)
                   /\ rng' = Advance(rng, n)
              ELSE /\ last' = Call("sample_posterior", <<n>>, "none",
                                   <<mu_samples, sigma_samples>>)
                   /\ rng' = Advance(rng, 2 * n)
  /\ UNCHANGED <<priors, posteriors, data, updates, elsewhere>>

\* posterior_beta is a numpy float64 after an update with n > 1 (line 67
\* adds np.sum's result to it) and the Python float passed to __init__
\* otherwise.  Division by 0.0 raises for a Python float; numpy warns and
\* returns inf or nan.
BetaIsNumpy ==
  FMul(prior_sigma, prior_sigma) # Zero /\ updates >= 1 /\ Len(data) > 1

\* a / b with a numpy float64 operand.
NpDiv(a, b) ==
  IF b # Zero THEN FDiv(a, b)
  ELSE IF a = Zero THEN NaN
  ELSE IF a[1] > 0 THEN Inf ELSE NegInf

\* np.sqrt(x): nan, with a warning, for a negative x.
NpSqrt(x) ==
  IF ~IsFinite(x) THEN (IF x = Inf THEN Inf ELSE NaN)
  ELSE IF x[1] < 0 THEN NaN
  ELSE FSqrt(x)

IsNegative(x) == IsFinite(x) /\ x[1] < 0

\* sample_posterior(n): 1/self.posterior_beta is evaluated first; numpy
\* then raises ValueError for a negative shape, a negative scale or a
\* negative size before it draws, and for a negative scale of the normal
\* distribution after the gamma variates were drawn.
sample_posterior(n) ==
  /\ n > 0 => rng[2] + 2 * n <= MaxDraws
  /\ IF ~BetaIsNumpy /\ posterior_beta = Zero
     THEN /\ last' = Call("sample_posterior", <<n>>, "ZeroDivisionError", <<>>)
          /\ rng' = rng
     ELSE LET scale == NpDiv(One, posterior_beta)
              precision_samples == GammaDraws(rng, posterior_alpha, scale, n)
              sigma_samples == InvSqrt(precision_samples)
              mu_samples ==
                NormalDraws(Advance(rng, n), posterior_mu, posterior_sigma, n)
          IN  IF n < 0 \/ IsNegative(posterior_alpha) \/ IsNegative(scale)
              THEN /\ last' = Call("sample_posterior", <<n>>, "ValueError", <<>>)
                   /\ rng' = rng
              ELSE IF FLt(posterior_sigma, Zero)
              THEN /\ last' = Call("sample_posterior", <<n>>, "ValueError", <<>>)
                   /\ rng' = Advance(rng, n)
              ELSE /\ last' = Call("sample_posterior", <<n>>, "none",
                                   <<mu_samples, sigma_samples>>)
                   /\ rng' = Advance(rng, 2 * n)
  /\ UNCHANGED <<priors, posteriors, data, updates, elsewhere>>

\* The arguments stats.t.pdf is called with: x, df, loc, scale.
TPdf(x, nu, loc, scale) == <<"t.pdf", x, nu, loc, scale>>

\* posterior_predictive(x) with posterior_sigma as the scale of the density.
posterior_predictive_sigma_scale(x) ==
  /\ IF ~BetaIsNumpy /\ posterior_alpha = Zero
     THEN last' = Call("posterior_predictive", <<x>>, "ZeroDivisionError", <<>>)
     ELSE last' = Call("posterior_predictive", <<x>>, "none",
                       TPdf(x, FMul(Two, posterior_alpha), posterior_mu,
                            posterior_sigma))
  /\ UNCHANGED <<priors, posteriors, data, updates, rng, elsewhere>>

\* posterior_predictive(x): posterior_alpha is a Python float, so that
\* the division raises for posterior_alpha = 0.0 unless posterior_beta is
\* a numpy float64.
posterior_predictive(x) ==
  /\ IF ~BetaIsNumpy /\ posterior_alpha = Zero
     THEN last' = Call("posterior_predictive", <<x>>, "ZeroDivisionError", <<>>)
     ELSE LET nu    == FMul(Two, posterior_alpha)
              scale == NpSqrt(NpDiv(FMul(posterior_beta, OfInt(1 + 1)),
                                    posterior_alpha))
          IN  last' = Call("posterior_predictive", <<x>>, "none",
                           TPdf(x, nu, posterior_mu, scale))
  /\ UNCHANGED <<priors, posteriors, data, updates, rng, elsewhere>>

\* np.random.seed(s), as demonstrate_bayesian_estimation calls it.
seed(s) ==
  /\ rng # <<s, 0>>
  /\ rng' = <<s, 0>>
  /\ last' = Call("seed", <<s>>, "none", <<>>)
  /\ UNCHANGED <<priors, posteriors, data, updates, elsewhere>>

Next ==
  \/ \E d \in Samples : update_posterior(d)
  \/ \E n \in -1..MaxSamples : sample_posterior(n)
  \/ \E x \in Queries : posterior_predictive(x)

Spec == Init /\ [][Next]_vars

\* <<prior_alpha, prior_beta>> that are not both positive.
MalformedGammas ==
  { <<<<-1, 0>>, <<1, 0>>>>, <<<<0, 0>>, <<1, 0>>>>,
    <<<<1, 0>>, <<0, 0>>>>, <<<<1, 0>>, <<-1, 0>>>> }

\* __init__ called with a prior_alpha or a prior_beta that is zero or
\* negative.
InitMalformed ==
  /\ prior_mu = Zero
  /\ prior_sigma = One
  /\ \E g \in MalformedGammas : prior_alpha = g[1] /\ prior_beta = g[2]
  /\ posterior_mu = prior_mu
  /\ posterior_sigma = prior_sigma
  /\ posterior_alpha = prior_alpha
  /\ posterior_beta = prior_beta
  /\ data = <<>>
  /\ updates = 0
  /\ rng = Unseeded
  /\ last = Call("__init__", <<>>, "none", <<>>)
  /\ ElsewhereInit

SpecMalformed == InitMalformed /\ [][Next]_vars

\* prior_sigma: 1.5625 and -1.5625, scales that 1/sqrt(1/sigma**2) does not
\* give back.
InexactSigmas == {<<25, -4>>, <<-25, -4>>}

\* __init__ with one of these scales and the other defaults.
InitInexact ==
  /\ prior_sigma \in InexactSigmas
  /\ prior_mu = Zero
  /\ prior_alpha = One
  /\ prior_beta = One
  /\ posterior_mu = prior_mu
  /\ posterior_sigma = prior_sigma
  /\ posterior_alpha = prior_alpha
  /\ posterior_beta = prior_beta
  /\ data = <<>>
  /\ updates = 0
  /\ rng = Unseeded
  /\ last = Call("__init__", <<>>, "none", <<>>)
  /\ ElsewhereInit

SpecInexact == InitInexact /\ [][Next]_vars

----------------------------------------------------------------------------
(* Two estimators in one process *)

\* What sample_posterior(n), n >= 0, returns for the generator state g and
\* the posterior fields post = <<mu, sigma, alpha, beta>>, sigma >= 0.
SamplesOf(g, post, n) ==
  << NormalDraws(Advance(g, n), post[1], post[2], n),
     InvSqrt(GammaDraws(g, post[3], FDiv(One, post[4]), n)) >>

\* What posterior_predictive(x) returns for the posterior fields post.
PredictiveOf(post, x) ==
  TPdf(x, FMul(Two, post[3]), post[1],
       FSqrt(FDiv(FMul(post[4], OfInt(1 + 1)), post[3])))

\* update_posterior(d) on the second estimator, whose prior_sigma is not 0.
other_update_posterior(d) ==
  /\ other' = [other EXCEPT !.data = d,
                            !.posteriors = Posterior(other.priors, d)]
  /\ last' = Call("other.update_posterior", <<d>>, "none", <<>>)
  /\ UNCHANGED <<priors, posteriors, data, updates, rng, gui, runner, apps>>

\* sample_posterior(n) on the second estimator, whose posterior_sigma,
\* posterior_alpha and posterior_beta are positive.
other_sample_posterior(n) ==
  /\ n > 0 => rng[2] + 2 * n <= MaxDraws
  /\ IF n < 0
     THEN /\ last' = Call("other.sample_posterior", <<n>>, "ValueError", <<>>)
          /\ rng' = rng
     ELSE /\ last' = Call("other.sample_posterior", <<n>>, "none",
                          SamplesOf(rng, other.posteriors, n))
          /\ rng' = Advance(rng, 2 * n)
  /\ UNCHANGED <<priors, posteriors, data, updates, other, gui, runner, apps>>

\* posterior_predictive(x) on the second estimator.
other_posterior_predictive(x) ==
  /\ last' = Call("other.posterior_predictive", <<x>>, "none",
                  PredictiveOf(other.posteriors, x))
  /\ UNCHANGED <<priors, posteriors, data, updates, rng, other, gui, runner, apps>>

\* The first estimator built with the default hyperparameters, next to the
\* second one.
InitPair ==
  /\ prior_mu = Zero
  /\ prior_sigma = One
  /\ prior_alpha = One
  /\ prior_beta = One
  /\ posterior_mu = prior_mu
  /\ posterior_sigma = prior_sigma
  /\ posterior_alpha = prior_alpha
  /\ posterior_beta = prior_beta
  /\ data = <<>>
  /\ updates = 0
  /\ rng = Unseeded
  /\ last = Call("__init__", <<>>, "none", <<>>)
  /\ ElsewhereInit

\* Samples either estimator is updated with: none, and (0.0, 2.0).
PairSamples == {<<>>, << <<0, 0>>, <<1, 1>> >>}

NextPair ==
  \/ \E d \in PairSamples : update_posterior(d)
  \/ \E n \in -1..MaxSamples : sample_posterior(n)
  \/ \E x \in Queries : posterior_predictive(x)
  \/ \E s \in Seeds : seed(s)
  \/ \E d \in PairSamples : other_update_posterior(d)
  \/ \E n \in -1..MaxSamples : other_sample_posterior(n)
  \/ \E x \in Queries : other_posterior_predictive(x)

SpecPair == InitPair /\ [][NextPair]_vars

\* One estimator with the default hyperparameters in a process that
\* seeds the global generator.
NextSeeded ==
  \/ \E d \in Samples : update_posterior(d)
  \/ \E n \in -1..MaxSamples : sample_posterior(n)
  \/ \E x \in Queries : posterior_predictive(x)
  \/ \E s \in Seeds : seed(s)

SpecSeeded == InitPair /\ [][NextSeeded]_vars

----------------------------------------------------------------------------
(* SimpleHomework1GUI *)

\* How subprocess.run ends: return code 0, another return code,
\* TimeoutExpired, or another exception.
Outcomes == {"ok", "error", "timeout", "exception"}

\* The block run_problem_simple appends for the outcome o of problem f:
\* its standard output, or one of the three error messages.
Block(f, o) ==
  IF o = "ok" THEN <<"stdout", f>>
  ELSE IF o = "error" THEN <<"Error running", f, "stderr">>
  ELSE IF o = "timeout" THEN <<"timed out", f>>
  ELSE <<"Error running", f, "exception">>

\* The status message run_problem_simple leaves for the outcome o.
StatusAfter(f, o) ==
  IF o = "ok" THEN <<"completed successfully", f>>
  ELSE IF o = "error" THEN <<"Error running", f>>
  ELSE IF o = "timeout" THEN <<"Execution timed out">>
  ELSE <<"Error occurred">>

\* The text a caller puts into an output area with setPlainText.
TestText == <<"Test output text">>

\* The window is built and shown: init_ui has returned.
Shown == status # <<>>

\* create_problem_tab for problem i, called for the problems in order: the
\* tab gets a new, empty output area, and self.output_text is bound to it.
create_problem_tab(i) ==
  /\ tabs = i - 1
  /\ tabs' = i
  /\ output_text' = i
  /\ UNCHANGED <<areas, status, event, estimators, runner, apps>>

\* The end of init_ui, after add_problem_tabs.
init_ui ==
  /\ tabs = 4
  /\ ~Shown
  /\ status' = <<"Ready">>
  /\ UNCHANGED <<tabs, output_text, areas, event, estimators, runner, apps>>

\* A click on "Run Problem" of tab i: run_problem_simple(problem['file'])
\* with the problem of that tab, whose subprocess ends with outcome o.
run_problem_simple(i, o) ==
  /\ Shown
  /\ areas' = [areas EXCEPT ![output_text] = <<Block(i, o)>>]
  /\ status' = StatusAfter(i, o)
  /\ event' = <<"Run Problem", i, o>>
  /\ UNCHANGED <<tabs, output_text, estimators, runner, apps>>

\* A click on "Clear Output" of tab i.
clear_output(i) ==
  /\ Shown
  /\ areas' = [areas EXCEPT ![output_text] = <<>>]
  /\ status' = <<"Output cleared">>
  /\ event' = <<"Clear Output", i>>
  /\ UNCHANGED <<tabs, output_text, estimators, runner, apps>>

\* setPlainText(TestText) on the output area of tab i, as the callers of
\* tests/test_gui_functionality.py do before they click.
setPlainText(i) ==
  /\ Shown
  /\ areas[i] # <<TestText>>
  /\ areas' = [areas EXCEPT ![i] = <<TestText>>]
  /\ event' = <<"setPlainText", i>>
  /\ UNCHANGED <<tabs, output_text, status, estimators, runner, apps>>

\* The window next to estimators nothing is called on.
InitGui == InitPair

NextGui ==
  \/ \E i \in Problems : create_problem_tab(i)
  \/ init_ui
  \/ \E i \in Problems : \E o \in Outcomes : run_problem_simple(i, o)
  \/ \E i \in Problems : clear_output(i)
  \/ \E i \in Problems : setPlainText(i)

SpecGui == InitGui /\ [][NextGui]_vars

----------------------------------------------------------------------------
(* ProblemRunner *)

\* Chunks of output a child writes at most.
MaxOutputs == 2

\* The child has ended: by itself with exit code 0 or 1, or killed.
Ended == process \in {"exited 0", "exited 1", "killed"}

\* How the start of run() goes: an exception before the child exists, a
\* child that fails to start, or a running child.
Starts == {"exception", "failed", "running"}

\* run() has been entered or start() has been called.
Started == pc # "idle"

\* QThread.start(): run() will be executed in a thread of its own.
start ==
  /\ pc = "idle"
  /\ pc' = "started"
  /\ UNCHANGED <<runner_class, process, is_running, written, pipe, queued,
                 emitted, messages, stop_called, estimators, gui, apps>>

\* gui_app: run() up to waitForFinished, called directly or by the thread
\* start() has created.  A QProcess that fails to start raises nothing; an
\* exception is reported through error_occurred and run() returns.
run_gui_app(o) ==
  /\ runner_class = "gui_app"
  /\ pc \in {"idle", "started"}
  /\ IF o = "exception"
     THEN /\ emitted' = emitted \cup {"error_occurred"}
          /\ messages' = messages \cup {"Error running problem"}
          /\ pc' = "returned"
          /\ UNCHANGED process
     ELSE /\ process' = o
          /\ pc' = "waiting"
          /\ UNCHANGED <<emitted, messages>>
  /\ UNCHANGED <<runner_class, is_running, written, pipe, queued,
                 stop_called, estimators, gui, apps>>

\* The child writes a chunk to its standard output.  The QProcess of
\* gui_app emits readyReadStandardOutput while run() waits; the slot
\* belongs to the runner, which lives in another thread, so the call is
\* queued.
child_writes ==
  /\ process = "running"
  /\ written < MaxOutputs
  /\ written' = written + 1
  /\ pipe' = pipe + 1
  /\ queued' = IF runner_class = "gui_app"
               THEN Append(queued, "handle_output")
               ELSE queued
  /\ UNCHANGED <<runner_class, pc, process, is_running, emitted, messages,
                 stop_called, estimators, gui, apps>>

\* The child ends by itself with exit code c.
child_exits(c) ==
  /\ process = "running"
  /\ process' = IF c = 0 THEN "exited 0" ELSE "exited 1"
  /\ UNCHANGED <<runner_class, pc, is_running, written, pipe, queued,
                 emitted, messages, stop_called, estimators, gui, apps>>

\* gui_app: waitForFinished(30000) returns True.  The QProcess has emitted
\* finished(exit_code, exit_status), which queues handle_finished.
wait_finished ==
  /\ runner_class = "gui_app"
  /\ pc = "waiting"
  /\ Ended
  /\ queued' = Append(queued, "handle_finished")
  /\ pc' = "returned"
  /\ UNCHANGED <<runner_class, process, is_running, written, pipe, emitted,
                 messages, stop_called, estimators, gui, apps>>

\* gui_app: waitForFinished(30000) returns False, after 30 seconds with a
\* running child or at once with a child that failed to start: kill(),
\* error_occurred, and run() returns.  The thread of the QProcess ends
\* with run(), so that the death of the child is never reported.
wait_timed_out ==
  /\ runner_class = "gui_app"
  /\ pc = "waiting"
  /\ process \in {"running", "failed"}
  /\ process' = IF process = "running" THEN "killed" ELSE process
  /\ emitted' = emitted \cup {"error_occurred"}
  /\ messages' = messages \cup {"Execution timed out"}
  /\ pc' = "returned"
  /\ UNCHANGED <<runner_class, is_running, written, pipe, queued,
                 stop_called, estimators, gui, apps>>

\* gui_app: the queued call of handle_output.
handle_output ==
  /\ queued # <<>>
  /\ Head(queued) = "handle_output"
  /\ queued' = Tail(queued)
  /\ emitted' = IF pipe > 0 THEN emitted \cup {"output_received"} ELSE emitted
  /\ pipe' = 0
  /\ UNCHANGED <<runner_class, pc, process, is_running, written, messages,
                 stop_called, estimators, gui, apps>>

\* The exit code handle_finished and run() see: not 0 for a killed child.
ExitCodeIsZero == process = "exited 0"

\* handle_finished without the test of the exit code.
handle_finished_silent ==
  /\ queued # <<>>
  /\ Head(queued) = "handle_finished"
  /\ queued' = Tail(queued)
  /\ emitted' = emitted \cup {"finished"}
  /\ UNCHANGED <<runner_class, pc, process, is_running, written, pipe,
                 messages, stop_called, estimators, gui, apps>>

\* gui_app: the queued call of handle_finished(exit_code, exit_status).
handle_finished ==
  /\ queued # <<>>
  /\ Head(queued) = "handle_finished"
  /\ queued' = Tail(queued)
  /\ emitted' = emitted \cup {"finished"}
                   \cup (IF ExitCodeIsZero THEN {} ELSE {"error_occurred"})
  /\ messages' = messages \cup (IF ExitCodeIsZero THEN {}
                                ELSE {"Process exited with code"})
  /\ UNCHANGED <<runner_class, pc, process, is_running, written, pipe,
                 stop_called, estimators, gui, apps>>

\* assignment_widget: the first statement of run(), self.is_running = True.
run_widget_enter ==
  /\ runner_class = "assignment_widget"
  /\ pc \in {"idle", "started"}
  /\ is_running' = TRUE
  /\ pc' = "entered"
  /\ UNCHANGED <<runner_class, process, written, pipe, queued, emitted,
                 messages, stop_called, estimators, gui, apps>>

\* assignment_widget: run() from os.getcwd() to Popen.  os.chdir or Popen
\* raising is caught: error_occurred, and finished from the finally block.
run_widget(o) ==
  /\ runner_class = "assignment_widget"
  /\ pc = "entered"
  /\ IF o = "running"
     THEN /\ process' = "running"
          /\ pc' = "looping"
          /\ UNCHANGED <<is_running, emitted, messages>>
     ELSE /\ emitted' = emitted \cup {"error_occurred", "finished"}
          /\ messages' = messages \cup {"Error running problem"}
          /\ is_running' = FALSE
          /\ pc' = "returned"
          /\ UNCHANGED process
  /\ UNCHANGED <<runner_class, written, pipe, queued, stop_called,
                 estimators, gui, apps>>

\* assignment_widget: the condition of the reading loop.
loop_test ==
  /\ runner_class = "assignment_widget"
  /\ pc = "looping"
  /\ pc' = IF is_running /\ process = "running" THEN "reading" ELSE "draining"
  /\ UNCHANGED <<runner_class, process, is_running, written, pipe, queued,
                 emitted, messages, stop_called, estimators, gui, apps>>

\* assignment_widget: readline() returns, with a line the child has
\* written, or with '' at the end of the output.
read_line ==
  /\ runner_class = "assignment_widget"
  /\ pc = "reading"
  /\ pipe > 0 \/ Ended
  /\ pipe' = IF pipe > 0 THEN pipe - 1 ELSE pipe
  /\ emitted' = IF pipe > 0 THEN emitted \cup {"output_received"} ELSE emitted
  /\ pc' = "looping"
  /\ UNCHANGED <<runner_class, process, is_running, written, queued,
                 messages, stop_called, estimators, gui, apps>>

\* assignment_widget: stdout.read() and stderr.read() return at the end of
\* the child's output, and run() tests self.is_running.
read_remaining ==
  /\ runner_class = "assignment_widget"
  /\ pc = "draining"
  /\ Ended
  /\ pipe' = 0
  /\ emitted' = IF pipe > 0 THEN emitted \cup {"output_received"} ELSE emitted
  /\ pc' = IF is_running THEN "reporting" ELSE "finishing"
  /\ UNCHANGED <<runner_class, process, is_running, written, queued,
                 messages, stop_called, estimators, gui, apps>>

\* assignment_widget: process.wait() and the report of the return code.
report ==
  /\ runner_class = "assignment_widget"
  /\ pc = "reporting"
  /\ emitted' = emitted \cup (IF ExitCodeIsZero THEN {"output_received"}
                              ELSE {"error_occurred"})
  /\ messages' = messages \cup (IF ExitCodeIsZero
                                THEN {"Problem completed successfully"}
                                ELSE {"Process exited with code"})
  /\ pc' = "finishing"
  /\ UNCHANGED <<runner_class, process, is_running, written, pipe, queued,
                 stop_called, estimators, gui, apps>>

\* assignment_widget: the finally block.
run_widget_end ==
  /\ runner_class = "assignment_widget"
  /\ pc = "finishing"
  /\ is_running' = FALSE
  /\ emitted' = emitted \cup {"finished"}
  /\ pc' = "returned"
  /\ UNCHANGED <<runner_class, process, written, pipe, queued, messages,
                 stop_called, estimators, gui, apps>>

\* stop(), called by the thread of the window once the runner has been
\* started: kill() of a running child in gui_app; in assignment_widget
\* is_running = False and, for a running child, terminate() and, after 3
\* seconds, kill().
stop ==
  /\ pc # "idle"
  /\ process' = IF process = "running" THEN "killed" ELSE process
  /\ is_running' = IF runner_class = "assignment_widget" THEN FALSE
                   ELSE is_running
  /\ stop_called' = TRUE
  /\ UNCHANGED <<runner_class, pc, written, pipe, queued, emitted, messages,
                 estimators, gui, apps>>

\* A runner of either class, next to a window and estimators nothing is
\* called on.
InitRunner ==
  /\ prior_mu = Zero
  /\ prior_sigma = One
  /\ prior_alpha = One
  /\ prior_beta = One
  /\ posterior_mu = prior_mu
  /\ posterior_sigma = prior_sigma
  /\ posterior_alpha = prior_alpha
  /\ posterior_beta = prior_beta
  /\ data = <<>>
  /\ updates = 0
  /\ rng = Unseeded
  /\ last = Call("__init__", <<>>, "none", <<>>)
  /\ other = Estimator(OtherPriors)
  /\ GuiInit
  /\ runner_class \in {"gui_app", "assignment_widget"}
  /\ RunnerInit
  /\ AppsInit

NextRunner ==
  \/ start
  \/ \E o \in Starts : run_gui_app(o)
  \/ run_widget_enter
  \/ \E o \in Starts : run_widget(o)
  \/ child_writes
  \/ \E c \in {0, 1} : child_exits(c)
  \/ wait_finished
  \/ wait_timed_out
  \/ handle_output
  \/ handle_finished
  \/ loop_test
  \/ read_line
  \/ read_remaining
  \/ report
  \/ run_widget_end
  \/ stop

\* The thread start() has created executes run().
thread_runs ==
  /\ pc = "started"
  /\ \/ \E o \in Starts : run_gui_app(o)
     \/ run_widget_enter

\* run() goes on once it has started, and the event loop of the thread
\* the runner lives in delivers the queued calls.  Nothing makes the child
\* write or end, and nobody has to call run(), start() or stop().
SpecRunner ==
  /\ InitRunner
  /\ [][NextRunner]_vars
  /\ WF_vars(thread_runs)
  /\ WF_vars(\E o \in Starts : run_widget(o))
  /\ WF_vars(wait_finished)
  /\ WF_vars(wait_timed_out)
  /\ WF_vars(handle_output)
  /\ WF_vars(handle_finished)
  /\ WF_vars(loop_test)
  /\ WF_vars(read_line)
  /\ WF_vars(read_remaining)
  /\ WF_vars(report)
  /\ WF_vars(run_widget_end)

----------------------------------------------------------------------------
(* The working directory of the process of assignment_widget.py *)

\* The state no runner of a ProblemWidget refers to, as far as the working
\* directory goes.
outside_shell == <<estimators, gui, runner, window, widget, listing, mainapp>>

\* run() of runner r: original_cwd = os.getcwd().
getcwd(r) ==
  /\ run_at[r] = "idle"
  /\ original_cwd' = [original_cwd EXCEPT ![r] = cwd]
  /\ run_at' = [run_at EXCEPT ![r] = "saved"]
  /\ UNCHANGED <<cwd, outside_shell>>

\* run() of runner r: os.chdir(self.working_dir).
chdir(r) ==
  /\ run_at[r] = "saved"
  /\ cwd' = WorkingDir(r)
  /\ run_at' = [run_at EXCEPT ![r] = "changed"]
  /\ UNCHANGED <<original_cwd, outside_shell>>

\* run() of runner r from Popen to the report of the return code, without
\* an exception.
child_done(r) ==
  /\ run_at[r] = "changed"
  /\ run_at' = [run_at EXCEPT ![r] = "ran"]
  /\ UNCHANGED <<cwd, original_cwd, outside_shell>>

\* run() of runner r from Popen to the report of the return code raises,
\* as Popen or the decoding of the child's output may: the except clause
\* and the finally block, and run() returns.
child_raises(r) ==
  /\ run_at[r] = "changed"
  /\ run_at' = [run_at EXCEPT ![r] = "returned"]
  /\ UNCHANGED <<cwd, original_cwd, outside_shell>>

\* run() of runner r: os.chdir(original_cwd), the finally block, and
\* run() returns.
restore(r) ==
  /\ run_at[r] = "ran"
  /\ cwd' = original_cwd[r]
  /\ run_at' = [run_at EXCEPT ![r] = "returned"]
  /\ UNCHANGED <<original_cwd, outside_shell>>

NextShell ==
  \/ \E r \in Runners : getcwd(r)
  \/ \E r \in Runners : chdir(r)
  \/ \E r \in Runners : child_done(r)
  \/ \E r \in Runners : child_raises(r)
  \/ \E r \in Runners : restore(r)

SpecShell == InitPair /\ [][NextShell]_vars

----------------------------------------------------------------------------
(* Homework1GUI *)

\* The state no operation of Homework1GUI refers to.
outside_window == <<estimators, gui, runner, shell, listing, mainapp>>

\* The runners whose thread is inside run().
Running == {id \in RunnerIds : thread[id] = "running"}

\* The runners created so far; they are numbered in the order of creation.
NumCreated == Cardinality({id \in RunnerIds : thread[id] # "none"})

\* What the thread of the window finds queued once run() of the runner id
\* has returned: the call of handle_finished, which emits finished, after
\* a child that ended or was killed by stop(); nothing after a timeout or
\* an exception.
Returned(id, end) ==
  IF end = "finished" THEN << <<"finished", id>> >> ELSE <<>>

RunEnds == {"finished", "timed out"}

\* run_problem without lines 405-407.
run_problem_no_wait(f, end) ==
  /\ ~closed
  /\ NumCreated < MaxRuns
  /\ LET new == NumCreated + 1
     IN /\ thread' = [thread EXCEPT ![new] = "running"]
        /\ file_of' = [file_of EXCEPT ![new] = f]
        /\ problem_runners' = [problem_runners EXCEPT ![f] = new]
  /\ shared_output' = {}
  /\ progress_bar' = TRUE
  /\ UNCHANGED <<events, closed, outside_window, widget>>

\* run_problem(f).  The runner stored for f, if any, is stopped and
\* waited for: its thread is no longer running when wait() returns.  The
\* output area is cleared, the progress bar shown, and a new runner is
\* created, stored under f and started.
run_problem(f, end) ==
  /\ ~closed
  /\ NumCreated < MaxRuns
  /\ LET old == problem_runners[f]
         new == NumCreated + 1
         waited == old # 0 /\ thread[old] = "running"
     IN /\ thread' = [id \in RunnerIds |->
                        IF id = new THEN "running"
                        ELSE IF id = old THEN "returned"
                        ELSE thread[id]]
        /\ events' = IF waited THEN events \o Returned(old, end) ELSE events
        /\ file_of' = [file_of EXCEPT ![new] = f]
        /\ problem_runners' = [problem_runners EXCEPT ![f] = new]
  /\ shared_output' = {}
  /\ progress_bar' = TRUE
  /\ UNCHANGED <<closed, outside_window, widget>>

\* The child of the runner id writes to its standard output: its QProcess
\* emits readyReadStandardOutput, which queues handle_output for the
\* thread of the window.
runner_output(id) ==
  /\ ~closed
  /\ thread[id] = "running"
  /\ Len(events) < MaxEvents
  /\ events' = Append(events, <<"output", id>>)
  /\ UNCHANGED <<problem_runners, thread, file_of, shared_output,
                 progress_bar, closed, outside_window, widget>>

\* run() of the runner id returns.
runner_returns(id, end) ==
  /\ ~closed
  /\ thread[id] = "running"
  /\ thread' = [thread EXCEPT ![id] = "returned"]
  /\ events' = events \o Returned(id, end)
  /\ UNCHANGED <<problem_runners, file_of, shared_output, progress_bar,
                 closed, outside_window, widget>>

\* The queued handle_output of a runner reads the output and emits
\* output_received: update_output appends it to self.output_text.
update_output ==
  /\ ~closed
  /\ events # <<>>
  /\ Head(events)[1] = "output"
  /\ shared_output' = shared_output \cup {Head(events)[2]}
  /\ events' = Tail(events)
  /\ UNCHANGED <<problem_runners, thread, file_of, progress_bar, closed,
                 outside_window, widget>>

\* The queued handle_finished of a runner emits finished:
\* problem_finished hides the progress bar.
problem_finished ==
  /\ ~closed
  /\ events # <<>>
  /\ Head(events)[1] = "finished"
  /\ progress_bar' = FALSE
  /\ events' = Tail(events)
  /\ UNCHANGED <<problem_runners, thread, file_of, shared_output, closed,
                 outside_window, widget>>

\* closeEvent: every stored runner that is running is stopped and waited
\* for.
closeEvent ==
  /\ ~closed
  /\ thread' = [id \in RunnerIds |->
                  IF /\ thread[id] = "running"
                     /\ \E f \in Files : problem_runners[f] = id
                  THEN "returned" ELSE thread[id]]
  /\ closed' = TRUE
  /\ UNCHANGED <<problem_runners, file_of, events, shared_output,
                 progress_bar, outside_window, widget>>

NextWindow ==
  \/ \E f \in Files : \E end \in RunEnds : run_problem(f, end)
  \/ \E id \in RunnerIds : runner_output(id)
  \/ \E id \in RunnerIds : \E end \in RunEnds : runner_returns(id, end)
  \/ update_output
  \/ problem_finished
  \/ closeEvent

SpecWindow == InitPair /\ [][NextWindow]_vars

----------------------------------------------------------------------------
(* ProblemWidget *)

\* The state no operation of ProblemWidget refers to; the runner is the
\* one of self.problem_runner.
outside_widget == <<estimators, gui, shell, window, listing, mainapp>>

\* A click on "Run Problem", which needs the button enabled: run_problem.
\* Without the problem file a message box is shown and nothing else
\* happens.  Otherwise a runner left in self.problem_runner is stopped,
\* waited for and dropped, the buttons and the progress bar are set, and a
\* new runner is created and started.
widget_run_problem(exists) ==
  /\ run_button
  /\ IF ~exists
     THEN /\ warnings < MaxWarnings
          /\ warnings' = warnings + 1
          /\ UNCHANGED <<run_button, stop_button, widget_progress_bar,
                         problem_runner, handled, runner>>
     ELSE /\ run_button' = FALSE
          /\ stop_button' = TRUE
          /\ widget_progress_bar' = TRUE
          /\ problem_runner' = TRUE
          /\ handled' = FALSE
          /\ pc' = "started"
          /\ process' = "none"
          /\ is_running' = FALSE
          /\ written' = 0
          /\ pipe' = 0
          /\ queued' = <<>>
          /\ emitted' = {}
          /\ messages' = {}
          /\ stop_called' = FALSE
          /\ UNCHANGED <<runner_class, warnings>>
  /\ UNCHANGED outside_widget

\* A click on "Stop", which needs the button enabled: stop_problem.
stop_problem ==
  /\ stop_button
  /\ IF problem_runner THEN stop ELSE UNCHANGED vars

\* on_problem_finished without line 590.
on_problem_finished_keeps_stop ==
  /\ "finished" \in emitted
  /\ ~handled
  /\ handled' = TRUE
  /\ run_button' = TRUE
  /\ widget_progress_bar' = FALSE
  /\ problem_runner' = FALSE
  /\ UNCHANGED <<stop_button, warnings, runner, outside_widget>>

\* The finished signal of the runner, queued for the thread of the widget,
\* is delivered: on_problem_finished.
on_problem_finished ==
  /\ "finished" \in emitted
  /\ ~handled
  /\ handled' = TRUE
  /\ run_button' = TRUE
  /\ stop_button' = FALSE
  /\ widget_progress_bar' = FALSE
  /\ problem_runner' = FALSE
  /\ UNCHANGED <<warnings, runner, outside_widget>>

\* A ProblemWidget as __init__ leaves it; its runners are of the class of
\* assignment_widget.py.
InitWidget ==
  /\ InitRunner
  /\ runner_class = "assignment_widget"

NextWidget ==
  \/ \E exists \in BOOLEAN : widget_run_problem(exists)
  \/ stop_problem
  \/ on_problem_finished
  \/ pc = "started" /\ run_widget_enter
  \/ \E o \in Starts : run_widget(o)
  \/ child_writes
  \/ \E c \in {0, 1} : child_exits(c)
  \/ loop_test
  \/ read_line
  \/ read_remaining
  \/ report
  \/ run_widget_end

SpecWidget == InitWidget /\ [][NextWidget]_vars

----------------------------------------------------------------------------
(* HomeworkManager._discover_problems *)

\* The state _discover_problems does not refer to.
outside_listing == <<estimators, gui, runner, shell, window, widget, mainapp>>

\* fnmatch of a file name against "problem*.py" and "*problem*.py": all
\* names of the model end in ".py".
MatchesPrefix(name) == name[1] = "problem"

MatchesInfix(name) == \E k \in 1..Len(name) : name[k] = "problem"

RECURSIVE DigitsFrom(_, _)

\* ''.join(filter(str.isdigit, filename)), from the k-th part on, as the
\* sequence of its digits.
DigitsFrom(name, k) ==
  IF k > Len(name) THEN <<>>
  ELSE (IF name[k] \in DOMAIN DigitValue THEN <<name[k]>> ELSE <<>>)
         \o DigitsFrom(name, k + 1)

RECURSIVE IntOf(_, _)

\* int() of a string of digits ds, read after the value acc.
IntOf(acc, ds) ==
  IF ds = <<>> THEN acc
  ELSE IntOf(10 * acc + DigitValue[Head(ds)], Tail(ds))

\* _load_problem_data, as far as 'number' and 'file_path' go: the number
\* is made of all digits of the name, and is 1 without any.
load_problem_data(name) ==
  LET digits == DigitsFrom(name, 1)
  IN [number |-> IF digits = <<>> THEN 1 ELSE IntOf(0, digits),
      file_path |-> name]

\* homework_dir.glob(pattern) in the order of the directory, without the
\* names that start with '__', each loaded.
Loaded(dir, Matches(_)) ==
  LET kept == SelectSeq(dir, LAMBDA name : Matches(name) /\ name[1] # "__")
  IN [k \in 1..Len(kept) |-> load_problem_data(kept[k])]

\* The place of x in a list sorted by 'number': behind every entry whose
\* number is not greater, as the stable sort of Python puts it.
InsertByNumber(x, sorted) ==
  LET before == SelectSeq(sorted, LAMBDA y : y.number <= x.number)
      after == SelectSeq(sorted, LAMBDA y : y.number > x.number)
  IN before \o <<x>> \o after

RECURSIVE SortedFrom(_, _, _)

\* sorted(problems, key=lambda x: x.get('number', 0)), from the k-th
\* entry on, into the sorted list acc.
SortedFrom(problems_, k, acc) ==
  IF k > Len(problems_) THEN acc
  ELSE SortedFrom(problems_, k + 1, InsertByNumber(problems_[k], acc))

DiscoverProblems(dir) ==
  SortedFrom(Loaded(dir, MatchesPrefix) \o Loaded(dir, MatchesInfix), 1, <<>>)

\* _discover_problems(homework_dir) for the directory of the state.
discover_problems ==
  /\ ~discovered
  /\ problems' = DiscoverProblems(directory)
  /\ discovered' = TRUE
  /\ UNCHANGED <<directory, outside_listing>>

\* A homework directory with any files of FileNames, in any order.
InitListing ==
  /\ prior_mu = Zero
  /\ prior_sigma = One
  /\ prior_alpha = One
  /\ prior_beta = One
  /\ posterior_mu = prior_mu
  /\ posterior_sigma = prior_sigma
  /\ posterior_alpha = prior_alpha
  /\ posterior_beta = prior_beta
  /\ data = <<>>
  /\ updates = 0
  /\ rng = Unseeded
  /\ last = Call("__init__", <<>>, "none", <<>>)
  /\ other = Estimator(OtherPriors)
  /\ GuiInit
  /\ runner_class = "gui_app"
  /\ RunnerInit
  /\ ShellInit
  /\ WindowInit
  /\ WidgetInit
  /\ MainInit
  /\ directory \in Directories
  /\ problems = <<>>
  /\ discovered = FALSE

NextListing == discover_problems

SpecListing == InitListing /\ [][NextListing]_vars

----------------------------------------------------------------------------
(* MainApplication and HomeworkManager *)

\* The state MainApplication and its HomeworkManager do not refer to.
outside_mainapp == <<estimators, gui, runner, shell, window, widget, listing>>

\* "Open Assignment Folder..." with the folder chosen in the dialog, or
\* none:
\* load_assignment_from_folder, then refresh_assignments, which refreshes
\* the manager and fills the list again.
open_assignment_folder(folder) ==
  /\ IF folder = NoFolder
     THEN UNCHANGED <<assignments_cache, assignment_list, current_row>>
     ELSE /\ assignments_cache' =
               Refreshed(LoadedFromFolder(assignments_cache, folder))
          /\ assignment_list' = get_available_assignments(assignments_cache')
          /\ current_row' = FirstRow(assignment_list')
  /\ main_event' = <<"open_assignment_folder", folder>>
  /\ UNCHANGED <<main_tabs, current_index, outside_mainapp>>

\* A click on a row of the assignment list.
on_assignment_selected(row) ==
  /\ row \in 1..Len(assignment_list)
  /\ current_row' = row
  /\ main_event' = <<"on_assignment_selected", row>>
  /\ UNCHANGED <<assignments_cache, assignment_list, main_tabs,
                 current_index, outside_mainapp>>

\* A click on a tab of self.main_tabs.
setCurrentIndex(i) ==
  /\ i \in 1..Len(main_tabs)
  /\ current_index' = i
  /\ main_event' = <<"setCurrentIndex", i>>
  /\ UNCHANGED <<assignments_cache, assignment_list, current_row, main_tabs,
                 outside_mainapp>>

\* The tabs that carry the assignment_id of the assignment number n.
TabsOf(tabs_, n) == {i \in 1..Len(tabs_) : tabs_[i] = n}

\* open_assignment_tab(assignment): the first tab with the assignment_id
\* becomes the current one; without such a tab a new one is added and
\* becomes the current one.
open_assignment_tab(assignment) ==
  /\ IF TabsOf(main_tabs, assignment.number) # {}
     THEN /\ current_index' =
               CHOOSE i \in TabsOf(main_tabs, assignment.number) :
                 \A j \in TabsOf(main_tabs, assignment.number) : i <= j
          /\ UNCHANGED main_tabs
     ELSE /\ main_tabs' = Append(main_tabs, assignment.number)
          /\ current_index' = Len(main_tabs) + 1
  /\ main_event' = <<"open_assignment_tab", assignment.number>>
  /\ UNCHANGED <<assignments_cache, assignment_list, current_row,
                 outside_mainapp>>

\* open_assignment_tab without the search for an existing tab.
open_assignment_tab_unchecked(assignment) ==
  /\ main_tabs' = Append(main_tabs, assignment.number)
  /\ current_index' = Len(main_tabs) + 1
  /\ main_event' = <<"open_assignment_tab", assignment.number>>
  /\ UNCHANGED <<assignments_cache, assignment_list, current_row,
                 outside_mainapp>>

\* open_selected_assignment with open_assignment_tab_unchecked.
open_selected_assignment_unchecked ==
  /\ current_row >= 1
  /\ \E assignments \in {get_available_assignments(assignments_cache)} :
       /\ current_row <= Len(assignments)
       /\ open_assignment_tab_unchecked(assignments[current_row])

\* "Open Assignment": open_selected_assignment.
open_selected_assignment ==
  /\ current_row >= 1
  /\ \E assignments \in {get_available_assignments(assignments_cache)} :
       /\ current_row <= Len(assignments)
       /\ open_assignment_tab(assignments[current_row])

NextMain ==
  \/ \E folder \in Folders \cup {NoFolder} : open_assignment_folder(folder)
  \/ \E row \in 1..Cardinality(Numbers) : on_assignment_selected(row)
  \/ \E i \in 1..(Cardinality(Numbers) + 1) : setCurrentIndex(i)
  \/ open_selected_assignment

SpecMain == InitPair /\ [][NextMain]_vars

----------------------------------------------------------------------------
(* Properties *)

\* "Valid priors": strictly positive scale, shape and rate.
ValidPriors ==
  /\ FLt(Zero, prior_sigma)
  /\ FLt(Zero, prior_alpha)
  /\ FLt(Zero, prior_beta)

\* The state update_posterior leaves when it returns without raising.
Updated == last.op = "update_posterior" /\ last.raised = "none"

\* The state right after update_posterior, returned or raised.
AfterUpdate == last.op = "update_posterior"

\* C1: for valid priors, update_posterior on an empty sample raises no
\* error and leaves the four posterior fields equal to the priors.
C1_EmptyUpdateKeepsPriors ==
  (AfterUpdate /\ ValidPriors /\ data = <<>>)
    => (last.raised = "none" /\ posteriors = priors)

\* C2: for a one-element sample and valid priors, the posterior mean and
\* mean-scale equal the prior ones, posterior_alpha is prior_alpha + 1/2
\* and posterior_beta is prior_beta.
C2_SinglePointFallback ==
  (AfterUpdate /\ ValidPriors /\ Len(data) = 1)
    => /\ last.raised = "none"
       /\ posterior_mu = prior_mu
       /\ posterior_sigma = prior_sigma
       /\ posterior_alpha = FAdd(prior_alpha, <<1, -1>>)
       /\ posterior_beta = prior_beta

\* C3: after update_posterior has returned for a sample of size n,
\* posterior_alpha == prior_alpha + n/2, the sum evaluated in floating
\* point as Python evaluates it; priors (0, 2, 1, 1) and a 20-point
\* sample give 11.
C3_ShapeAdvancesByHalfN ==
  Updated =>
    /\ posterior_alpha = FAdd(prior_alpha, FDiv(OfInt(Len(data)), Two))
    /\ (priors = <<Zero, Two, One, One>> /\ Len(data) = 20)
         => posterior_alpha = <<11, 0>>

C3_Witness ==
  /\ Updated
  /\ priors = <<Zero, Two, One, One>>
  /\ data = DemoData
  /\ posterior_alpha = <<11, 0>>

\* The posterior fields of a fresh estimator with priors pr after the
\* single call update_posterior(d), which raises for a zero prior_sigma.
FreshThenUpdate(pr, d) ==
  IF FMul(pr[2], pr[2]) = Zero THEN pr ELSE Posterior(pr, d)

\* C4: after any sequence of update_posterior calls, the posterior fields
\* are those of a fresh estimator with the same priors after the single
\* call update_posterior(d) for the last sample d.
C4_NonIncremental ==
  updates >= 1 => posteriors = FreshThenUpdate(priors, data)

C4_Witness ==
  /\ updates = 2
  /\ Updated
  /\ Len(data) = 2
  /\ posterior_mu # prior_mu
  /\ posterior_beta # prior_beta

\* np.mean(data), the sum of squared deviations and sample_var of the
\* recorded sample.
SampleMean == Moments(data)[1]

SampleSS == Moments(data)[2]

SampleVariance == SampleVar(Len(data), SampleSS)

\* Exact comparisons of floating-point values: a in units of 2^e.
MinExp(a, b) == IF a[2] <= b[2] THEN a[2] ELSE b[2]

Units(a, e) == a[1] * (2 ^ (a[2] - e))

\* |a - b|, exactly, as <<count, e>> standing for count * 2^e.
ExactDist(a, b) ==
  <<Abs(Units(a, MinExp(a, b)) - Units(b, MinExp(a, b))), MinExp(a, b)>>

DistLt(x, y) == Units(x, MinExp(x, y)) < Units(y, MinExp(x, y))

StrictlyBetween(x, a, b) ==
  \/ FLt(a, x) /\ FLt(x, b)
  \/ FLt(b, x) /\ FLt(x, a)

\* Largest sample size the posterior means are compared for.
MaxN == 8

\* posterior_mu for a sample of size k with mean m and variance v.
MuAt(k, m, v) == PosteriorMu(prior_mu, PriorPrecision(prior_sigma), k, m, v)

MuExact(n, m, v) ==
  /\ MulExact(prior_sigma, prior_sigma)
  /\ DivExact(One, FMul(prior_sigma, prior_sigma))
  /\ DivExact(OfInt(n), v)
  /\ MulExact(OfInt(n), m)
  /\ DivExact(FMul(OfInt(n), m), v)
  /\ \E prec \in {PriorPrecision(prior_sigma)} :
     \E nmv \in {FDiv(FMul(OfInt(n), m), v)} :
       /\ AddExact(prec, FDiv(OfInt(n), v))
       /\ MulExact(prec, prior_mu)
       /\ AddExact(FMul(prec, prior_mu), nmv)
       /\ DivExact(FAdd(FMul(prec, prior_mu), nmv),
                   PosteriorPrecision(prec, n, v))

AllEqual(d) == \A i, j \in 1..Len(d) : d[i] = d[j]

\* C6: for a sample of at most one element, or of two or more equal
\* elements, the posterior mean and mean-scale are prior_mu and
\* prior_sigma.
C6_ZeroVarianceFallback ==
  (Updated /\ ValidPriors /\ (Len(data) <= 1 \/ AllEqual(data)))
    => (posterior_mu = prior_mu /\ posterior_sigma = prior_sigma)

\* C7: posterior_beta is prior_beta for n <= 1 and, for n > 1,
\* prior_beta + SS/2 + prior_precision * n * (sample_mean - prior_mu)^2
\* / (2 * posterior_precision), where prior_precision is 1/prior_sigma^2
\* and posterior_precision is prior_precision + n/sample_variance for a
\* sample variance > 0 and prior_precision otherwise.
C7_RateFormula ==
  Updated =>
    IF Len(data) <= 1 THEN posterior_beta = prior_beta
    ELSE \E mean \in {SampleMean} : \E ss \in {SampleSS} :
         \E var \in {SampleVariance} :
         \E pp \in {FDiv(One, FMul(prior_sigma, prior_sigma))} :
         \E postp \in {IF FLt(Zero, var)
                       THEN FAdd(pp, FDiv(OfInt(Len(data)), var))
                       ELSE pp} :
           posterior_beta =
             FAdd(FAdd(prior_beta, FDiv(ss, Two)),
                  FDiv(FMul(FMul(pp, OfInt(Len(data))),
                            FMul(FSub(mean, prior_mu), FSub(mean, prior_mu))),
                       FMul(Two, postp)))

\* An all-equal sample of two elements, variance 0, that changes the rate.
C7_Witness ==
  /\ Updated
  /\ Len(data) = 2
  /\ data[1] = data[2]
  /\ SampleVariance = Zero
  /\ posterior_beta # prior_beta

\* C8: a fresh estimator has its posterior fields equal to the priors and
\* no data, and so has every estimator update_posterior was not called
\* on; sample_posterior (for valid priors and a size >= 0) and
\* posterior_predictive then return without raising, computed from the
\* priors.
C8_FreshUsesPriors ==
  /\ updates = 0 => (posteriors = priors /\ data = <<>>)
  /\ (updates = 0 /\ last.op = "posterior_predictive") =>
       /\ last.raised = "none"
       /\ last.value =
            TPdf(last.args[1], FMul(Two, prior_alpha), prior_mu,
                 FSqrt(FDiv(FMul(prior_beta, Two), prior_alpha)))
  /\ (updates = 0 /\ last.op = "sample_posterior" /\ ValidPriors
        /\ last.args[1] >= 0) =>
       /\ last.raised = "none"
       /\ \E n \in {last.args[1]} :
            last.value =
              << NormalDraws(Advance(rng, -n), prior_mu, prior_sigma, n),
                 InvSqrt(GammaDraws(Advance(rng, -2 * n), prior_alpha,
                                    FDiv(One, prior_beta), n)) >>

C8_Witness ==
  /\ updates = 0
  /\ ValidPriors
  /\ prior_mu # Zero
  /\ last.op = "sample_posterior"
  /\ last.args = <<1>>
  /\ last.raised = "none"
  /\ Len(last.value[1]) = 1

\* C9: no call changes prior_mu, prior_sigma, prior_alpha or prior_beta.
C9_PriorsImmutable == [][priors' = priors]_vars

\* All three operations were called and the posterior has moved.
C9_Witness ==
  /\ updates = 2
  /\ rng[2] > 0
  /\ last.op = "posterior_predictive"
  /\ posteriors # priors

\* C10: a step of sample_posterior or posterior_predictive leaves the
\* posterior fields, the prior fields and self.data unchanged.
C10_SamplingReadOnly ==
  [][last'.op \in {"sample_posterior", "posterior_predictive"}
       => UNCHANGED <<priors, posteriors, data>>]_vars

\* Samples were drawn after an update that moved the posterior.
C10_Witness ==
  /\ updates >= 1
  /\ posteriors # priors
  /\ data # <<>>
  /\ last.op = "sample_posterior"
  /\ last.raised = "none"
  /\ last.args = <<1>>

\* The state sample_posterior leaves when it returns without raising.
Sampled == last.op = "sample_posterior" /\ last.raised = "none"

OtherStep ==
  last'.op \in {"other.update_posterior", "other.sample_posterior",
                "other.posterior_predictive"}

\* C12: an operation on the second estimator changes no field of the
\* first one, nor what the first one's next sample_posterior(n) and
\* posterior_predictive(x) return.
C12_InstancesIndependent ==
  [][OtherStep =>
       /\ UNCHANGED <<priors, posteriors, data>>
       /\ \A x \in Queries :
            PredictiveOf(posteriors', x) = PredictiveOf(posteriors, x)
       /\ \A n \in 0..MaxSamples :
            SamplesOf(rng', posteriors', n) = SamplesOf(rng, posteriors, n)]_vars

\* C13: for an estimator built with prior_sigma = 0, update_posterior
\* returns for every sample instead of raising a division-by-zero error.
C13_ZeroScaleNeverRaises ==
  (AfterUpdate /\ prior_sigma = Zero) => last.raised = "none"

\* C14: for a prior_alpha or prior_beta that is zero or negative,
\* update_posterior, sample_posterior (n_samples >= 0) and
\* posterior_predictive all return without raising.
C14_MalformedPriorsNeverRaise ==
  ( /\ ~(FLt(Zero, prior_alpha) /\ FLt(Zero, prior_beta))
    /\ last.op \in {"update_posterior", "sample_posterior",
                    "posterior_predictive"}
    /\ last.op = "sample_posterior" => last.args[1] >= 0 )
    => last.raised = "none"

\* C15: for valid priors sample_posterior(n) never raises; it returns two
\* sequences of length n for n > 0 and two empty sequences for n <= 0.
C15_SamplingNeverFails ==
  (last.op = "sample_posterior" /\ ValidPriors) =>
    /\ last.raised = "none"
    /\ \E n \in {IF last.args[1] > 0 THEN last.args[1] ELSE 0} :
         Len(last.value[1]) = n /\ Len(last.value[2]) = n

\* The state posterior_predictive leaves when it returns without raising.
Predicted == last.op = "posterior_predictive" /\ last.raised = "none"

\* C16: what posterior_predictive(x) returns is the Student's-t density at
\* x with 2 * posterior_alpha degrees of freedom, location posterior_mu
\* and scale sqrt(2 * posterior_beta / posterior_alpha); posterior_sigma
\* does not enter.
C16_PredictiveParameters ==
  Predicted =>
    last.value =
      TPdf(last.args[1], FMul(Two, posterior_alpha), posterior_mu,
           FSqrt(FDiv(FMul(Two, posterior_beta), posterior_alpha)))

\* A density evaluated after an update, with a scale other than
\* posterior_sigma.
C16_Witness ==
  /\ Predicted
  /\ updates >= 1
  /\ posteriors # priors
  /\ last.value[5] # posterior_sigma
  /\ last.value[3] = FMul(Two, posterior_alpha)

\* C18: after a click on "Run Problem" of tab i whose script ends with
\* return code 0, the output area of tab i is not empty and holds the
\* output of problem i.
C18_RunFillsOwnTab ==
  \A i \in Problems :
    event = <<"Run Problem", i, "ok">> =>
      /\ areas[i] # <<>>
      /\ \E k \in 1..Len(areas[i]) : areas[i][k] = <<"stdout", i>>

\* C19: after a click on "Clear Output" of tab i, the output area of tab
\* i is empty.
C19_ClearEmptiesOwnTab ==
  \A i \in Problems : event = <<"Clear Output", i>> => areas[i] = <<>>

\* run() has returned and no call of a slot of the runner is pending.
RunOver == pc = "returned" /\ queued = <<>>

\* C20: once run() is over, the finished signal has been emitted.
C20_RunEndsWithFinished == RunOver => "finished" \in emitted

\* C20 as a liveness property: every execution of run() eventually emits
\* finished.
C20_RunEventuallyFinishes == (pc # "idle") ~> ("finished" \in emitted)

C23_NoSuccessAfterStop ==
  [][(runner_class = "assignment_widget" /\ stop_called)
       => ("Problem completed successfully" \in messages'
             => "Problem completed successfully" \in messages)]_vars

\* C23, its second part: once stop() has been called on a runner of
\* assignment_widget, the child is eventually terminated and run() has
\* returned.
C23_StopEndsRun ==
  (runner_class = "assignment_widget" /\ stop_called)
    ~> (process # "running" /\ pc = "returned")

\* C23: for a runner of assignment_widget, after stop() no success
\* message is emitted, the child is eventually terminated, and run()
\* returns.
C23_StopIsFinal == C23_NoSuccessAfterStop /\ C23_StopEndsRun

\* C25: when no runner is inside run() and at least one has run, the
\* working directory of the process is the one the application was
\* started in.
C25_CwdRestored ==
  ( /\ \A r \in Runners : run_at[r] \in {"idle", "returned"}
    /\ \E r \in Runners : run_at[r] = "returned" )
    => cwd = StartDir

\* C22: the runners created are those of the run_problem calls, one
\* each; at most one runner per problem file is running, and it is the
\* one stored for the file; after closeEvent no runner is running.
C22_OneRunnerPerFile ==
  /\ \A f \in Files :
       Cardinality({id \in Running : file_of[id] = f}) <= 1
  /\ \A id \in Running : problem_runners[file_of[id]] = id
  /\ closed => Running = {}

\* A second run of a file while its first runner was running.
C22_Witness ==
  \E a, b \in RunnerIds :
    /\ a < b
    /\ file_of[a] = file_of[b]
    /\ file_of[a] \in Files
    /\ thread[a] = "returned"
    /\ thread[b] = "running"
    /\ \E k \in 1..Len(events) : events[k] = <<"finished", a>>

\* C30: once run_problem has been called, the output area shows output
\* of the runner the last call started only, and the progress bar is
\* visible while a runner is running.
C30_OutputOfLastRunOnly ==
  NumCreated > 0 =>
    /\ \A id \in shared_output : id = NumCreated
    /\ Running # {} => progress_bar

\* A runner started by run_problem has not yet been handled by
\* on_problem_finished.
Pending == pc # "idle" /\ ~handled

\* C24, the state: exactly one of the two buttons is enabled; "Stop" is
\* enabled, "Run" disabled and the progress bar visible exactly while a
\* runner is pending; otherwise self.problem_runner is None.
C24_Buttons ==
  /\ run_button # stop_button
  /\ stop_button = Pending
  /\ widget_progress_bar = Pending
  /\ ~Pending => ~problem_runner

\* C24: the buttons, the progress bar and self.problem_runner follow the
\* runner as C24_Buttons says, and a run_problem call for a missing file
\* changes none of them.
C24_ButtonsFollowRunner ==
  /\ []C24_Buttons
  /\ [][warnings' # warnings
         => UNCHANGED <<run_button, stop_button, widget_progress_bar,
                        problem_runner>>]_vars

\* A second run has been started after the first one was stopped and
\* handled, and a missing file was met in between.
C24_Witness ==
  /\ Pending
  /\ warnings > 0
  /\ stop_called
  /\ "finished" \in emitted

\* C26: the list _discover_problems returns has no two entries with the
\* same file_path, and its entries are in ascending order of number.
C26_EachProblemOnce ==
  discovered =>
    /\ \A i, j \in 1..Len(problems) :
         i # j => problems[i].file_path # problems[j].file_path
    /\ \A i, j \in 1..Len(problems) :
         i < j => problems[i].number <= problems[j].number

\* C27: after open_assignment_folder for a folder with a digit in its
\* name, the folder is the entry of its number in the cache of the
\* manager and an item of the assignment list.
C27_OpenedFolderListed ==
  \A folder \in Folders :
    (main_event = <<"open_assignment_folder", folder>> /\ folder.number # 0)
      => /\ assignments_cache[folder.number] = folder
         /\ \E k \in 1..Len(assignment_list) : assignment_list[k] = folder

\* C28, the state: no two tabs carry the same assignment, and after
\* open_assignment_tab the current tab is the one of the assignment.
C28_Tabs ==
  /\ \A i, j \in 1..Len(main_tabs) : i # j => main_tabs[i] # main_tabs[j]
  /\ main_event[1] = "open_assignment_tab"
       => /\ current_index \in 1..Len(main_tabs)
          /\ main_tabs[current_index] = main_event[2]

\* C28: at most one tab per assignment; open_assignment_tab for an
\* assignment that has a tab adds none and makes that tab the current
\* one.
C28_OneTabPerAssignment ==
  /\ []C28_Tabs
  /\ [][(main_event'[1] = "open_assignment_tab"
           /\ TabsOf(main_tabs, main_event'[2]) # {})
          => main_tabs' = main_tabs]_vars

\* An assignment is opened again while another tab is the current one.
C28_Witness ==
  /\ main_event[1] = "open_assignment_tab"
  /\ Len(main_tabs) = 3
  /\ current_index = 2

\* C29: after update_posterior with a non-zero prior_sigma,
\* posterior_sigma <= |prior_sigma|, strictly so exactly for a sample of
\* two or more values that are not all equal, and
\* posterior_beta >= prior_beta.
C29_NeverWidens ==
  (Updated /\ prior_sigma # Zero) =>
    /\ FLe(posterior_sigma, FAbs(prior_sigma))
    /\ FLt(posterior_sigma, FAbs(prior_sigma))
         <=> (Len(data) >= 2 /\ ~AllEqual(data))
    /\ FLe(prior_beta, posterior_beta)

====
